---------------------------- MODULE Spec2Model ----------------------------
(***************************************************************************)
(* The recipe pipeline of grandma_cook_agent: the three event-driven       *)
(* stages RecorderAgent (agents/recorder.py), LlmAgent (agents/llm_agent.py)*)
(* and CardMakerAgent (agents/card_maker.py), the events they exchange,    *)
(* the artifact store and the notification collaborators.                  *)
(*                                                                         *)
(* Text is modelled as a sequence of characters (one-character strings); a *)
(* character outside ASCII is written as the token "uXXXX" of its code     *)
(* point, which stands for that one character.                             *)
(***************************************************************************)
EXTENDS Integers, Sequences, FiniteSets, TLC

VARIABLES
    tasks,      \* the handler invocations in flight: one record per (stage, delivered event)
    last,       \* the handler invocation that returned most recently, with its effects
    store,      \* the shared artifact store: key -> value
    files,      \* temporary files existing in the recorder's working directory
    injected,   \* how many events the environment has injected
    scan,       \* the line scan of generate_recipe_card over one markdown text
    log,        \* the puts and the returns of the card maker's invocations, in order
    tool        \* the line scan of tools/generate_card.py over the same markdown text

vars == <<tasks, last, store, files, injected, scan, log, tool>>

(***************************************************************************)
(* Bounds of the model.                                                    *)
(***************************************************************************)
MaxInject == 1
MaxBlocks == 3

(***************************************************************************)
(* Characters and string helpers.                                          *)
(***************************************************************************)
UpperChars == <<"A", "B", "C", "D", "E", "F", "G", "H", "I", "J", "K", "L", "M", "N", "O", "P", "Q", "R", "S", "T", "U", "V", "W", "X", "Y", "Z">>
LowerChars == <<"a", "b", "c", "d", "e", "f", "g", "h", "i", "j", "k", "l", "m", "n", "o", "p", "q", "r", "s", "t", "u", "v", "w", "x", "y", "z">>
DigitChars == <<"0", "1", "2", "3", "4", "5", "6", "7", "8", "9">>

\* str.lower() on one character
LowerChar(c) ==
    IF \E i \in 1..Len(UpperChars) : UpperChars[i] = c
    THEN LowerChars[CHOOSE i \in 1..Len(UpperChars) : UpperChars[i] = c]
    ELSE c

\* str.lower()
Lower(s) == [i \in 1..Len(s) |-> LowerChar(s[i])]

\* needle in hay
Contains(hay, needle) ==
    \E i \in 0..(Len(hay) - Len(needle)) :
        SubSeq(hay, i + 1, i + Len(needle)) = needle

\* str(n) for a natural number
RECURSIVE Dec(_)
Dec(n) == IF n < 10 THEN <<DigitChars[n + 1]>>
          ELSE Dec(n \div 10) \o <<DigitChars[(n % 10) + 1]>>

\* the id of the n-th event that arrives from outside
EventId(n) == <<"e">> \o Dec(n)

(***************************************************************************)
(* Agent identities and event names.                                       *)
(***************************************************************************)
RecorderId == "recorder"
LlmId == "llm-agent"
CardMakerId == "card-maker"
Stages == {RecorderId, LlmId, CardMakerId}

EvAudioNew == "recipe.audio.new"
EvText == "recipe.text"
EvTextTranscribed == "recipe.text.transcribed"
EvMdProcessed == "recipe.md.processed"
EvCardGenerated == "recipe.card.generated"
EvChat == "chat.message"

(***************************************************************************)
(* Payloads: a Python dict, as the sequence of its items in insertion      *)
(* order.  An item is [k, v, quoted]: quoted is TRUE for a str value and   *)
(* FALSE for a number (whose v is its repr).                               *)
(***************************************************************************)
Item(k, v) == [k |-> k, v |-> v, quoted |-> TRUE]
Num(k, v) == [k |-> k, v |-> v, quoted |-> FALSE]

Has(payload, k) == \E i \in 1..Len(payload) : payload[i].k = k

\* payload.get(k, dflt)
Get(payload, k, dflt) ==
    IF Has(payload, k)
    THEN payload[CHOOSE i \in 1..Len(payload) : payload[i].k = k].v
    ELSE dflt

KeyChars(k) ==
    CASE k = "content" -> <<"c", "o", "n", "t", "e", "n", "t">>
      [] k = "text" -> <<"t", "e", "x", "t">>
      [] k = "message" -> <<"m", "e", "s", "s", "a", "g", "e">>
      [] k = "recipe_id" -> <<"r", "e", "c", "i", "p", "e", "_", "i", "d">>
      [] k = "audio_url" -> <<"a", "u", "d", "i", "o", "_", "u", "r", "l">>
      [] k = "filename" -> <<"f", "i", "l", "e", "n", "a", "m", "e">>
      [] k = "confidence" -> <<"c", "o", "n", "f", "i", "d", "e", "n", "c", "e">>
      [] k = "source" -> <<"s", "o", "u", "r", "c", "e">>
      [] k = "card_url" -> <<"c", "a", "r", "d", "_", "u", "r", "l">>

\* repr() of one dict item: 'key': 'value' or 'key': number
ReprItem(it) ==
    <<"'">> \o KeyChars(it.k) \o <<"'", ":", " ">>
        \o (IF it.quoted THEN <<"'">> \o it.v \o <<"'">> ELSE it.v)

RECURSIVE ReprItems(_)
ReprItems(payload) ==
    IF Len(payload) = 0 THEN <<>>
    ELSE IF Len(payload) = 1 THEN ReprItem(payload[1])
    ELSE ReprItem(payload[1]) \o <<",", " ">> \o ReprItems(Tail(payload))

\* str(payload) of a dict
Str(payload) == <<"{">> \o ReprItems(payload) \o <<"}">>

(***************************************************************************)
(* Events, handler tasks and their effects.                                *)
(***************************************************************************)
MkEvent(id, name, src, payload) ==
    [id |-> id, event_name |-> name, source_id |-> src, payload |-> payload]

\* a delivered event waiting for its handler in one stage
NewTask(s, ev) ==
    [stage |-> s, ev |-> ev, pc |-> "pending", recipe_id |-> <<>>, data |-> <<>>,
     fx |-> <<>>, outcome |-> ""]

NoTask == NewTask("", MkEvent(<<>>, "", "", <<>>))

(***************************************************************************)
(* Which events a stage acts on.  A stage whose handler returns at once    *)
(* (an event of its own, a name it does not handle, an empty input) does   *)
(* nothing and reads nothing shared: that invocation is folded into the    *)
(* delivery, and only the invocations that go on become tasks.             *)
(***************************************************************************)
\* RecorderAgent.react(): not an event of its own, named recipe.audio.new, with
\* a non-empty audio_url
Recorder_accepts(event) ==
    /\ event.source_id # RecorderId
    /\ event.event_name = EvAudioNew
    /\ Get(event.payload, "audio_url", <<>>) # <<>>

\* the text react() classifies: content, else text, else message, else str(payload)
ContentOf(payload) ==
    LET c1 == Get(payload, "content", <<>>)
        c2 == IF c1 = <<>> THEN Get(payload, "text", <<>>) ELSE c1
        c3 == IF c2 = <<>> /\ Has(payload, "message") THEN Get(payload, "message", <<>>) ELSE c2
    IN IF c3 = <<>> THEN Str(payload) ELSE c3

\* (mutant) react() does not skip the events the agent published itself
Llm_accepts_NoSelfFilter(event) == ContentOf(event.payload) # <<>>

\* LlmAgent.react(): not an event of its own, whatever its name, with a
\* non-empty text (str(payload) of a dict is never empty)
Llm_accepts(event) ==
    /\ event.source_id # LlmId
    /\ ContentOf(event.payload) # <<>>

\* (mutant) the handler goes on whatever the content
CardMaker_accepts_AnyContent(event) == event.event_name = EvMdProcessed

\* CardMakerAgent: the handler registered for 'recipe.md.processed' runs for
\* every event of that name and goes on when its content is not empty.
\* react() returns at once for an event of its own and only prints otherwise;
\* the registered handler does not look at the source.
CardMaker_accepts(event) ==
    /\ event.event_name = EvMdProcessed
    /\ Get(event.payload, "content", <<>>) # <<>>

Accepts(s, event) ==
    CASE s = RecorderId -> Recorder_accepts(event)
      [] s = LlmId -> Llm_accepts(event)
      [] s = CardMakerId -> CardMaker_accepts(event)

\* the network hands an event to every stage
Deliver(ev) == {NewTask(s, ev) : s \in {x \in Stages : Accepts(x, ev)}}

\* one step of a handler that a collaborator sees (or, for "render", its own
\* computation): what was called, on what or with what result, with what
Fx(kind, target, arg) == [kind |-> kind, target |-> target, arg |-> arg]

\* the handler returned (or an exception left it): its last steps and how it ended
Done(t, outcome, fx) == [t EXCEPT !.pc = "done", !.outcome = outcome, !.fx = @ \o fx]

\* the handler suspends at its next await
Goto(t, pc, fx) == [t EXCEPT !.pc = pc, !.fx = @ \o fx]

\* the id of the event a handler publishes (a handler publishes at most once)
ChildId(t) == t.ev.id \o <<"/", IF t.stage = RecorderId THEN "r"
                                ELSE IF t.stage = LlmId THEN "l" ELSE "c">>

\* the handler of task t returns as `done`, after creating the events `emit`
Finish(t, done, emit) ==
    /\ tasks' = (tasks \ {t}) \cup UNION {Deliver(emit[i]) : i \in 1..Len(emit)}
    /\ last' = done

\* the handler of task t moves on to its next await
Step(t, new) ==
    /\ tasks' = (tasks \ {t}) \cup {new}
    /\ UNCHANGED last

Kinds(fx) == {fx[i].kind : i \in 1..Len(fx)}
Count(fx, kind) == Cardinality({i \in 1..Len(fx) : fx[i].kind = kind})

(***************************************************************************)
(* RecorderAgent (agents/recorder.py).                                     *)
(***************************************************************************)
Default == <<"d", "e", "f", "a", "u", "l", "t">>
TempPrefix == <<"t", "e", "m", "p", "_">>
TempSuffix == <<"_", "a", "u", "d", "i", "o", ".", "m", "4", "a">>
TranscribedPrefix == <<"u65B0", "u83DC", "u8C31", "u5DF2", "u8F6C", "u5F55", "u5B8C", "u6210", ":", " ">>
Confidence == <<"0", ".", "9">>

\* what requests.get can do: a response with a status code, or an exception
FetchOutcomes == {"200", "404", "raise"}
\* what the transcription API can return for a downloaded file
Transcripts == {<<"H", "o", "w", " ", "t", "o", " ", "C", "o", "o", "k", " ", "r", "i", "c", "e">>,
                <<"h", "e", "l", "l", "o">>}

\* (mutant) the status code of the response is not looked at
FetchOk_NoStatusCheck(fetch) == fetch # "raise"

\* the download went through: no exception and status_code == 200
FetchOk(fetch) == fetch = "200"

\* f"temp_{recipe_id}_audio.m4a"
TempFilename(recipe_id) == TempPrefix \o recipe_id \o TempSuffix

\* the ways transcribe_audio(audio_url, recipe_id, context) can run: the steps
\* taken, the event published, and whether the temporary file was left behind,
\* removed or never written
transcribe_audio(t, audio_url, recipe_id) ==
    LET temp_filename == TempFilename(recipe_id)
        fetched(fetch) == <<Fx("fetch", fetch, audio_url)>>
        saved == <<Fx("write_file", "", temp_filename)>>
        asr(result) == <<Fx("transcribe", result, temp_filename)>>
        removed == <<Fx("remove_file", "", temp_filename)>>
        notified(transcript) ==
            <<Fx("channel", "recipe-uploads", TranscribedPrefix \o transcript)>>
        new(transcript) ==
            MkEvent(ChildId(t), EvText, RecorderId,
                    <<Item("content", transcript), Item("recipe_id", recipe_id),
                      Num("confidence", Confidence)>>)
        sent == <<Fx("publish", EvText, ChildId(t))>>
        Run(fx, outcome, emit, left) ==
            [fx |-> fx, outcome |-> outcome, emit |-> emit, left |-> left]
        transcribed(fetch, transcript) ==
            fetched(fetch) \o saved \o asr("ok") \o removed
    IN
    {Run(fetched(fetch), IF fetch = "raise" THEN "fetch_error" ELSE "fetch_failed", <<>>, "untouched") :
        fetch \in {f \in FetchOutcomes : ~FetchOk(f)}}
    \cup
    {Run(fetched(fetch) \o saved \o asr("raise"), "transcription_error", <<>>, "left") :
        fetch \in {f \in FetchOutcomes : FetchOk(f)}}
    \cup
    UNION {
      {Run(transcribed(x[1], x[2]), "no_messaging", <<>>, "removed"),
       Run(transcribed(x[1], x[2]), "notify_error", <<>>, "removed"),
       Run(transcribed(x[1], x[2]) \o notified(x[2]), "publish_error", <<>>, "removed"),
       Run(transcribed(x[1], x[2]) \o notified(x[2]) \o sent, "published", <<new(x[2])>>, "removed")} :
      x \in {f \in FetchOutcomes : FetchOk(f)} \X Transcripts}

\* react(): the whole handler of one delivered event.  requests.get, the file
\* writes and the transcription call are synchronous; the two awaits that follow
\* touch nothing another handler reads.
Recorder_react(t) ==
    /\ t.stage = RecorderId
    /\ t.pc = "pending"
    /\ Recorder_accepts(t.ev)
    /\ UNCHANGED <<store, injected>>
    /\ LET audio_url == Get(t.ev.payload, "audio_url", <<>>)
           recipe_id == Get(t.ev.payload, "recipe_id", Default)
       IN \E run \in transcribe_audio(t, audio_url, recipe_id) :
             /\ Finish(t, Done([t EXCEPT !.recipe_id = recipe_id], run.outcome, run.fx),
                       run.emit)
             /\ files' = CASE run.left = "left" -> files \cup {TempFilename(recipe_id)}
                            [] run.left = "removed" -> files \ {TempFilename(recipe_id)}
                            [] OTHER -> files

(***************************************************************************)
(* LlmAgent (agents/llm_agent.py).                                         *)
(***************************************************************************)
Keywords ==
    {<<"u83DC", "u8C31">>,
     <<"r", "e", "c", "i", "p", "e">>,
     <<"u505A", "u6CD5">>,
     <<"c", "o", "o", "k", "i", "n", "g">>,
     <<"c", "o", "o", "k">>,
     <<"h", "o", "w", " ", "t", "o", " ", "m", "a", "k", "e">>,
     <<"u600E", "u4E48", "u505A">>,
     <<"u98DF", "u8C31">>,
     <<"i", "n", "g", "r", "e", "d", "i", "e", "n", "t", "s">>,
     <<"i", "n", "s", "t", "r", "u", "c", "t", "i", "o", "n", "s">>}

AckText == <<"u6536", "u5230", "u60A8", "u7684", "u6D88", "u606F", "u3002", "u5982", "u679C", "u60A8", "u60F3", "u521B", "u5EFA", "u83DC", "u8C31", "u5361", "u7247", "uFF0C", "u8BF7", "u63D0", "u4F9B", "u83DC", "u8C31", "u5185", "u5BB9", "uFF0C", "u6211", "u4F1A", "u5E2E", "u60A8", "u5904", "u7406", "u3002">>
ProcessingText == <<"u6B63", "u5728", "u5904", "u7406", "u60A8", "u7684", "u83DC", "u8C31", "u8BF7", "u6C42", "uFF0C", "u5C06", "u5176", "u8F6C", "u6362", "u4E3A", "u6807", "u51C6", "u683C", "u5F0F", ".", ".", ".">>
SubmittedText == <<"u1F4DD", " ", "u65B0", "u83DC", "u8C31", "u5DF2", "u63D0", "u4EA4", "uFF0C", "u6B63", "u5728", "u5904", "u7406", "u4E2D", ".", ".", ".">>
ErrorPrefix == <<"u5904", "u7406", "u83DC", "u8C31", "u65F6", "u51FA", "u73B0", "u9519", "u8BEF", ":", " ">>
RecipePrefix == <<"r", "e", "c", "i", "p", "e", "_">>
LlmSource == <<"l", "l", "m", "_", "a", "g", "e", "n", "t">>
\* str(e) of the exception a collaborator raises
ErrorTexts == {<<"b", "o", "o", "m">>}

\* any(keyword in content.lower() for keyword in [...])
IsRecipeRequest(content) ==
    \E lowered \in {Lower(content)} : \E keyword \in Keywords : Contains(lowered, keyword)

\* (mutant) the channel is told before the event is published
trigger_recipe_processing_NotifyFirst(t, recipe_content) ==
    LET addressee == t.ev.source_id
        ack == Fx("direct", addressee, ProcessingText)
        new == MkEvent(ChildId(t), EvTextTranscribed, LlmId,
                       <<Item("content", recipe_content),
                         Item("recipe_id", RecipePrefix \o t.ev.id),
                         Item("source", LlmSource)>>)
        sent == Fx("publish", EvTextTranscribed, ChildId(t))
        note == Fx("channel", "recipe.md", SubmittedText)
        Run(fx, outcome, emit) == [fx |-> fx, outcome |-> outcome, emit |-> emit]
    IN {Run(<<ack, note, sent>>, "published", <<new>>),
        Run(<<ack, note>>, "escaped", <<>>)}
       \cup {Run(<<ack, note, Fx("direct", addressee, ErrorPrefix \o e)>>, "reported", <<>>) :
                e \in ErrorTexts}

\* the ways _trigger_recipe_processing(recipe_content, context) can run
trigger_recipe_processing(t, recipe_content) ==
    LET addressee == t.ev.source_id
        ack == Fx("direct", addressee, ProcessingText)
        new == MkEvent(ChildId(t), EvTextTranscribed, LlmId,
                       <<Item("content", recipe_content),
                         Item("recipe_id", RecipePrefix \o t.ev.id),
                         Item("source", LlmSource)>>)
        sent == Fx("publish", EvTextTranscribed, ChildId(t))
        note == Fx("channel", "recipe.md", SubmittedText)
        Run(fx, outcome, emit) == [fx |-> fx, outcome |-> outcome, emit |-> emit]
        \* the try block, up to the point where it ends or an await raises
        tried == {Run(<<>>, "raised", <<>>),                      \* send_direct_message raised
                  Run(<<ack>>, "raised", <<>>),                   \* create_event raised
                  Run(<<ack, sent>>, "published", <<new>>),       \* no messaging adapter
                  Run(<<ack, sent>>, "raised", <<new>>),          \* send_channel_message raised
                  Run(<<ack, sent, note>>, "published", <<new>>)}
    IN
    {r \in tried : r.outcome = "published"}
    \cup
    \* the except block: the failure message, which can itself raise
    UNION {{Run(r.fx \o <<Fx("direct", addressee, ErrorPrefix \o e)>>, "reported", r.emit) :
                e \in ErrorTexts}
           \cup {Run(r.fx, "escaped", r.emit)} :
           r \in {x \in tried : x.outcome = "raised"}}

\* react(): the whole handler of one delivered event.  Its awaits touch nothing
\* another handler reads.
Llm_react(t) ==
    /\ t.stage = LlmId
    /\ t.pc = "pending"
    /\ Llm_accepts(t.ev)
    /\ UNCHANGED <<store, files, injected>>
    /\ \E content \in {ContentOf(t.ev.payload)} :
       LET t1 == [t EXCEPT !.data = content]
       IN IF IsRecipeRequest(content)
          THEN \E run \in trigger_recipe_processing(t, content) :
                  Finish(t, Done(t1, run.outcome, run.fx), run.emit)
          ELSE \* the plain acknowledgment, outside any try
               \/ Finish(t, Done(t1, "acknowledged",
                                 <<Fx("direct", t.ev.source_id, AckText)>>), <<>>)
               \/ Finish(t, Done(t1, "escaped", <<>>), <<>>)

(***************************************************************************)
(* CardMakerAgent (agents/card_maker.py).                                  *)
(***************************************************************************)
CardKeyPrefix == <<"r", "e", "c", "i", "p", "e", "_", "c", "a", "r", "d", "_">>
CardKeySuffix == <<".", "p", "n", "g">>
DownloadBase == <<"h", "t", "t", "p", ":", "/", "/", "l", "o", "c", "a", "l", "h", "o", "s", "t", ":", "8", "7", "0", "0", "/", "a", "r", "t", "i", "f", "a", "c", "t", "s", "/", "d", "o", "w", "n", "l", "o", "a", "d", "/">>
RecipesBase == <<"h", "t", "t", "p", ":", "/", "/", "l", "o", "c", "a", "l", "h", "o", "s", "t", ":", "8", "7", "0", "0", "/", "r", "e", "c", "i", "p", "e", "s", "/">>
CardReadyPrefix == <<"u1F389", " ", "u83DC", "u8C31", "u5361", "u7247", "u5DF2", "u751F", "u6210", "uFF01", "u4E0B", "u8F7D", "u60A8", "u7684", "u5E26", "u4E8C", "u7EF4", "u7801", "u7684", "u5361", "u7247", ":", " ">>

\* (mutant) the key is built without the recipe id of the event
CardKey_Fixed(recipe_id) == CardKeyPrefix \o Default \o CardKeySuffix

\* f"recipe_card_{recipe_id}.png"
CardKey(recipe_id) == CardKeyPrefix \o recipe_id \o CardKeySuffix
\* f"http://localhost:8700/artifacts/download/recipe_card_{recipe_id}.png"
DownloadUrl(recipe_id) == DownloadBase \o CardKey(recipe_id)
\* f"http://localhost:8700/recipes/{recipe_id}"
QrUrl(recipe_id) == RecipesBase \o recipe_id

\* the bytes of the card: what was drawn from, and the link in its QR code
PngBytes(markdown_content, recipe_id) ==
    [content |-> markdown_content, qr_url |-> QrUrl(recipe_id)]

\* what the rendering part of generate_recipe_card can do: finish, or raise
RenderOutcomes == {"ok", "raise"}
\* what artifact.put can do: store the value, report a failure, or raise
PutOutcomes == {"stored", "failed", "raise"}

\* (mutant) a failure while drawing is swallowed, as the font fallback does
RenderAborts_Swallowed(render) == FALSE

\* an exception while parsing, drawing or encoding leaves the try block
RenderAborts(render) == render = "raise"

\* an exception of put leaves the try block; its result is not looked at
PutAborts(put) == put = "raise"

\* (mutant) a put replaces the whole store
StorePut_Replace(key, value) == [k \in {key} |-> value]

\* (mutant) a put under a key that is taken leaves the first value
StorePut_KeepFirst(key, value) ==
    [k \in DOMAIN store \cup {key} |-> IF k \in DOMAIN store THEN store[k] ELSE value]

\* store[key] = value
StorePut(key, value) ==
    [k \in DOMAIN store \cup {key} |-> IF k = key THEN value ELSE store[k]]

\* the registered handler of 'recipe.md.processed' and the synchronous part of
\* generate_recipe_card, up to its first await
CardMaker_handle_recipe_processed(t) ==
    /\ t.stage = CardMakerId
    /\ t.pc = "pending"
    /\ CardMaker_accepts(t.ev)
    /\ UNCHANGED <<store, files, injected>>
    /\ LET content == Get(t.ev.payload, "content", <<>>)
           recipe_id == Get(t.ev.payload, "recipe_id", Default)
           t1 == [t EXCEPT !.recipe_id = recipe_id, !.data = content]
       IN \E render \in RenderOutcomes, artifact \in BOOLEAN :
             LET fx == <<Fx("render", render, <<>>)>>
             IN IF RenderAborts(render)
                THEN Finish(t, Done(t1, "render_error", fx), <<>>)
                ELSE IF artifact
                THEN Step(t, Goto(t1, "put", fx))
                ELSE Finish(t, Done(t1, "no_artifact", fx), <<>>)

\* await artifact.put(key=..., value=png_bytes), and the lookup of the messaging
\* adapter that follows it
CardMaker_put(t) ==
    /\ t.stage = CardMakerId
    /\ t.pc = "put"
    /\ UNCHANGED <<files, injected>>
    /\ \E put \in PutOutcomes, messaging \in BOOLEAN :
          LET key == CardKey(t.recipe_id)
              fx == <<Fx("put", put, key)>>
          IN /\ store' = IF put = "stored"
                         THEN StorePut(key, PngBytes(t.data, t.recipe_id))
                         ELSE store
             /\ IF PutAborts(put)
                THEN Finish(t, Done(t, "storage_error", fx), <<>>)
                ELSE IF messaging
                THEN Step(t, Goto(t, "notify", fx))
                ELSE Finish(t, Done(t, "no_messaging", fx), <<>>)

\* await messaging.send_channel_message(channel="recipe-cards", text=message)
CardMaker_send_channel_message(t) ==
    /\ t.stage = CardMakerId
    /\ t.pc = "notify"
    /\ UNCHANGED <<store, files, injected>>
    /\ \/ Step(t, Goto(t, "publish",
                       <<Fx("channel", "recipe-cards",
                            CardReadyPrefix \o DownloadUrl(t.recipe_id))>>))
       \/ Finish(t, Done(t, "notify_error", <<>>), <<>>)

\* await context.create_event(name="recipe.card.generated", ...)
CardMaker_create_event(t) ==
    /\ t.stage = CardMakerId
    /\ t.pc = "publish"
    /\ UNCHANGED <<store, files, injected>>
    /\ \/ Finish(t, Done(t, "published", <<Fx("publish", EvCardGenerated, ChildId(t))>>),
                 <<MkEvent(ChildId(t), EvCardGenerated, CardMakerId,
                           <<Item("recipe_id", t.recipe_id),
                             Item("card_url", DownloadUrl(t.recipe_id))>>)>>)
       \/ Finish(t, Done(t, "publish_error", <<>>), <<>>)

(***************************************************************************)
(* The extraction part of generate_recipe_card (agents/card_maker.py,      *)
(* lines 88-144): the title loop, then the scan for ingredients and        *)
(* instruction previews, one line at a time.                               *)
(***************************************************************************)
DefaultTitle == <<"u672A", "u77E5", "u83DC", "u8C31">>
IngredientsHeaderZh == <<"#", "#", " ", "u98DF", "u6750">>
IngredientsHeaderEn == <<"#", "#", " ", "I", "n", "g", "r", "e", "d", "i", "e", "n", "t", "s">>
InstructionsHeaderZh == <<"#", "#", " ", "u5236", "u4F5C", "u6B65", "u9AA4">>
InstructionsHeaderEn == <<"#", "#", " ", "I", "n", "s", "t", "r", "u", "c", "t", "i", "o", "n", "s">>
Ellipsis == <<".", ".", ".">>
MaxIngredients == 5
MaxInstructions == 3
IngredientLimit == 80
InstructionLimit == 60

\* the characters str.strip() and \s take for whitespace (a line holds no \n)
Whitespace == {" ", "\t"}

\* str.startswith(prefix)
StartsWith(s, prefix) ==
    /\ Len(s) >= Len(prefix)
    /\ SubSeq(s, 1, Len(prefix)) = prefix

\* str.strip()
Strip(s) ==
    IF \A i \in 1..Len(s) : s[i] \in Whitespace THEN <<>>
    ELSE SubSeq(s,
                CHOOSE i \in 1..Len(s) :
                    s[i] \notin Whitespace /\ \A j \in 1..(i - 1) : s[j] \in Whitespace,
                CHOOSE i \in 1..Len(s) :
                    s[i] \notin Whitespace /\ \A j \in (i + 1)..Len(s) : s[j] \in Whitespace)

\* str.lstrip()
LStrip(s) ==
    IF \A i \in 1..Len(s) : s[i] \in Whitespace THEN <<>>
    ELSE SubSeq(s,
                CHOOSE i \in 1..Len(s) :
                    s[i] \notin Whitespace /\ \A j \in 1..(i - 1) : s[j] \in Whitespace,
                Len(s))

\* s[n:]
From(s, n) == SubSeq(s, n + 1, Len(s))

\* markdown_content.split('\n')
RECURSIVE Split(_)
Split(s) ==
    IF \E i \in 1..Len(s) : s[i] = "\n"
    THEN LET i == CHOOSE i \in 1..Len(s) : s[i] = "\n" /\ \A j \in 1..(i - 1) : s[j] # "\n"
         IN <<SubSeq(s, 1, i - 1)>> \o Split(From(s, i))
    ELSE <<s>>

\* how many digits the line starts with
LeadingDigits(s) ==
    LET IsDigit(c) == \E d \in 1..Len(DigitChars) : DigitChars[d] = c
        run == {n \in 0..Len(s) : \A j \in 1..n : IsDigit(s[j])}
    IN CHOOSE n \in run : \A m \in run : m <= n

\* (mutant) the whitespace after the period is not asked for
MatchesNumbered_NoSpace(line) ==
    LET n == LeadingDigits(line)
    IN n >= 1 /\ Len(line) >= n + 2 /\ line[n + 1] = "."

\* re.match(r'^\d+\.\s', line)
MatchesNumbered(line) ==
    LET n == LeadingDigits(line)
    IN /\ n >= 1
       /\ Len(line) >= n + 2
       /\ line[n + 1] = "."
       /\ line[n + 2] \in Whitespace

\* re.sub(r'^\d+\.\s*', '', line)
SubNumbered(line) ==
    LET n == LeadingDigits(line)
    IN IF n >= 1 /\ Len(line) >= n + 1 /\ line[n + 1] = "."
       THEN LStrip(From(line, n + 1))
       ELSE line

\* (mutant) the text is cut and no marker is added
Truncate_NoMarker(text, limit) ==
    IF Len(text) > limit THEN SubSeq(text, 1, limit) ELSE text

\* text[:limit] + "..." when len(text) > limit
Truncate(text, limit) ==
    IF Len(text) > limit THEN SubSeq(text, 1, limit) \o Ellipsis ELSE text

\* (mutant) any line that starts with '#' is taken for the title
IsTitleLine_AnyHash(line) == StartsWith(line, <<"#">>)

\* line.startswith('# ')
IsTitleLine(line) == StartsWith(line, <<"#", " ">>)

\* (mutant) the English header is looked for at the start of the line only
IsIngredientsHeader_PrefixOnly(line) ==
    StartsWith(line, IngredientsHeaderZh) \/ StartsWith(line, IngredientsHeaderEn)

\* line.startswith('## 食材') or '## Ingredients' in line
IsIngredientsHeader(line) ==
    StartsWith(line, IngredientsHeaderZh) \/ Contains(line, IngredientsHeaderEn)

\* line.startswith('## 制作步骤') or '## Instructions' in line
IsInstructionsHeader(line) ==
    StartsWith(line, InstructionsHeaderZh) \/ Contains(line, InstructionsHeaderEn)

\* (mutant) a '##' line that is not a known header leaves the section open
IsOtherHeader_Never(line) == FALSE

\* line.startswith('##')
IsOtherHeader(line) == StartsWith(line, <<"#", "#">>)

\* line.startswith('- ')
IsBullet(line) == StartsWith(line, <<"-", " ">>)

\* (mutant) a captured item is put in front of the earlier ones
Capture_InFront(items, item) == <<item>> \o items

\* ingredients.append(ingredient), instructions_preview.append(instruction)
Capture(items, item) == Append(items, item)

\* (mutant) the scan goes on after the fifth ingredient
IngredientsFull_Never(ingredients) == FALSE

\* (mutant) the scan stops one ingredient late
IngredientsFull_AtSix(ingredients) == Len(ingredients) >= MaxIngredients + 1

\* len(ingredients) >= 5
IngredientsFull(ingredients) == Len(ingredients) >= MaxIngredients

\* len(instructions_preview) < 3
InstructionsOpen(instructions_preview) == Len(instructions_preview) < MaxInstructions

\* the title loop: the first stripped line that starts with '# ' gives the title
ExtractedTitle(lines) ==
    LET hits == {i \in 1..Len(lines) : IsTitleLine(Strip(lines[i]))}
    IN IF hits = {} THEN DefaultTitle
       ELSE Strip(From(Strip(lines[CHOOSE i \in hits : \A j \in hits : i <= j]), 2))

\* the card before anything is drawn
NoCard == [width |-> 0, height |-> 0, fonts |-> "", ops |-> <<>>]

\* the state of the extraction before its first loop; ingredient_lines and
\* instruction_lines remember which line each captured item came from
StartScan(markdown_content) ==
    [lines |-> Split(markdown_content), pc |-> "title", line_num |-> 0,
     title |-> DefaultTitle, ingredients |-> <<>>, instructions_preview |-> <<>>,
     ingredients_section |-> FALSE, instructions_section |-> FALSE,
     ingredient_lines |-> <<>>, instruction_lines |-> <<>>, card |-> NoCard]

\* no extraction is running
NoScan == [StartScan(<<>>) EXCEPT !.pc = "idle"]

\* (mutant) the third instruction ends the scan, as the fifth ingredient does
ScanStep_BreakAtThree(sc) ==
    LET n == sc.line_num + 1
        line == Strip(sc.lines[n])
        next == [sc EXCEPT !.line_num = n,
                           !.pc = IF n = Len(sc.lines) THEN "done" ELSE "scan"]
    IN
    IF IsIngredientsHeader(line)
    THEN [next EXCEPT !.ingredients_section = TRUE, !.instructions_section = FALSE]
    ELSE IF IsInstructionsHeader(line)
    THEN [next EXCEPT !.ingredients_section = FALSE, !.instructions_section = TRUE]
    ELSE
    LET reset == IF IsOtherHeader(line)
                 THEN [next EXCEPT !.ingredients_section = FALSE,
                                   !.instructions_section = FALSE]
                 ELSE next
    IN
    IF reset.ingredients_section /\ IsBullet(line)
    THEN LET ingredient == Truncate(Strip(From(line, 2)), IngredientLimit)
             got == [reset EXCEPT !.ingredients = Capture(@, ingredient),
                                  !.ingredient_lines = Append(@, n)]
         IN IF IngredientsFull(got.ingredients)
            THEN [got EXCEPT !.pc = "done"]          \* break
            ELSE got                                 \* the two flags are never both set
    ELSE IF /\ reset.instructions_section
            /\ MatchesNumbered(line)
            /\ InstructionsOpen(reset.instructions_preview)
    THEN LET instruction == Truncate(Strip(SubNumbered(line)), InstructionLimit)
         IN [reset EXCEPT !.instructions_preview = Capture(@, instruction),
                          !.instruction_lines = Append(@, n),
                          !.pc = IF Len(sc.instructions_preview) >= 2
                                 THEN "done" ELSE @]
    ELSE reset

\* one iteration of the scan loop, on lines[line_num] (line_num counts from 0)
ScanStep(sc) ==
    LET n == sc.line_num + 1
        line == Strip(sc.lines[n])
        next == [sc EXCEPT !.line_num = n,
                           !.pc = IF n = Len(sc.lines) THEN "done" ELSE "scan"]
    IN
    IF IsIngredientsHeader(line)
    THEN [next EXCEPT !.ingredients_section = TRUE, !.instructions_section = FALSE]
    ELSE IF IsInstructionsHeader(line)
    THEN [next EXCEPT !.ingredients_section = FALSE, !.instructions_section = TRUE]
    ELSE
    LET reset == IF IsOtherHeader(line)
                 THEN [next EXCEPT !.ingredients_section = FALSE,
                                   !.instructions_section = FALSE]
                 ELSE next
    IN
    IF reset.ingredients_section /\ IsBullet(line)
    THEN LET ingredient == Truncate(Strip(From(line, 2)), IngredientLimit)
             got == [reset EXCEPT !.ingredients = Capture(@, ingredient),
                                  !.ingredient_lines = Append(@, n)]
         IN IF IngredientsFull(got.ingredients)
            THEN [got EXCEPT !.pc = "done"]          \* break
            ELSE got                                 \* the two flags are never both set
    ELSE IF /\ reset.instructions_section
            /\ MatchesNumbered(line)
            /\ InstructionsOpen(reset.instructions_preview)
    THEN LET instruction == Truncate(Strip(SubNumbered(line)), InstructionLimit)
         IN [reset EXCEPT !.instructions_preview = Capture(@, instruction),
                          !.instruction_lines = Append(@, n)]
    ELSE reset

(***************************************************************************)
(* The extraction part of the standalone tool generate_recipe_card         *)
(* (tools/generate_card.py, lines 18-66), written from its own source.     *)
(***************************************************************************)
\* title = "未知菜谱"
Tool_DefaultTitle == <<"u672A", "u77E5", "u83DC", "u8C31">>

\* the tool's locals before its title loop
Tool_Start(markdown_content) ==
    [lines |-> Split(markdown_content), pc |-> "title", line_num |-> 0,
     title |-> Tool_DefaultTitle, ingredients |-> <<>>, instructions_preview |-> <<>>,
     ingredients_section |-> FALSE, instructions_section |-> FALSE]

\* the tool is not running
NoTool == [Tool_Start(<<>>) EXCEPT !.pc = "idle"]

\* the title loop: the first stripped line that starts with '# ', without it
RECURSIVE Tool_Title(_)
Tool_Title(lines) ==
    IF Len(lines) = 0 THEN Tool_DefaultTitle
    ELSE LET line == Strip(Head(lines))
         IN IF StartsWith(line, <<"#", " ">>)
            THEN Strip(From(line, 2))
            ELSE Tool_Title(Tail(lines))

\* (mutant) the tool never breaks out of its scan
Tool_IngredientsFull_Never(ingredients) == FALSE

\* len(ingredients) >= 5
Tool_IngredientsFull(ingredients) == Len(ingredients) >= 5

\* one iteration of the tool's scan loop, on lines[line_num]
Tool_ScanStep(sc) ==
    LET n == sc.line_num + 1
        line == Strip(sc.lines[n])
        more == IF n < Len(sc.lines) THEN "scan" ELSE "done"
        at == [sc EXCEPT !.line_num = n, !.pc = more]
    IN
    CASE StartsWith(line, <<"#", "#", " ", "u98DF", "u6750">>)
         \/ Contains(line, <<"#", "#", " ", "I", "n", "g", "r", "e", "d", "i", "e", "n", "t", "s">>)
           -> [at EXCEPT !.ingredients_section = TRUE, !.instructions_section = FALSE]
      [] OTHER ->
    CASE StartsWith(line, <<"#", "#", " ", "u5236", "u4F5C", "u6B65", "u9AA4">>)
         \/ Contains(line, <<"#", "#", " ", "I", "n", "s", "t", "r", "u", "c", "t", "i", "o", "n", "s">>)
           -> [at EXCEPT !.ingredients_section = FALSE, !.instructions_section = TRUE]
      [] OTHER ->
    LET in_ingredients == sc.ingredients_section /\ ~StartsWith(line, <<"#", "#">>)
        in_instructions == sc.instructions_section /\ ~StartsWith(line, <<"#", "#">>)
        flagged == [at EXCEPT !.ingredients_section = in_ingredients,
                              !.instructions_section = in_instructions]
        raw_ingredient == Strip(From(line, 2))
        ingredient == IF Len(raw_ingredient) > 80
                      THEN SubSeq(raw_ingredient, 1, 80) \o <<".", ".", ".">>
                      ELSE raw_ingredient
        raw_instruction == Strip(SubNumbered(line))
        instruction == IF Len(raw_instruction) > 60
                       THEN SubSeq(raw_instruction, 1, 60) \o <<".", ".", ".">>
                       ELSE raw_instruction
        \* the first `if`: an ingredient, and perhaps the break
        first == IF in_ingredients /\ StartsWith(line, <<"-", " ">>)
                 THEN LET all == Append(sc.ingredients, ingredient)
                      IN [flagged EXCEPT !.ingredients = all,
                                         !.pc = IF Tool_IngredientsFull(all) THEN "done" ELSE @]
                 ELSE flagged
        broke == in_ingredients /\ StartsWith(line, <<"-", " ">>)
                    /\ Tool_IngredientsFull(first.ingredients)
    IN \* the second `if`, not reached after a break
       IF ~broke /\ in_instructions /\ MatchesNumbered(line)
             /\ Len(sc.instructions_preview) < 3
       THEN [first EXCEPT !.instructions_preview = Append(@, instruction)]
       ELSE first

(***************************************************************************)
(* The drawing part of generate_recipe_card (lines 156-207): the canvas    *)
(* and, in order, what is drawn on it and where.                           *)
(***************************************************************************)
card_width == 600
card_height == 800
QrSide == 100
QrInset == 130
LabelRise == 30
title_y == 40
TextLeft == 30
ItemLeft == 40
IngredientsDrop == 70
ListDrop == 40
IngredientStep == 30
InstructionsGap == 30
InstructionStep == 25

IngredientsLabel == <<"u98DF", "u6750", ":">>
InstructionsLabel == <<"u5236", "u4F5C", "u6B65", "u9AA4", "u9884", "u89C8", ":">>
QrLabel == <<"u626B", "u63CF", "u83B7", "u53D6", "u5B8C", "u6574", "u83DC", "u8C31">>
BulletMark == <<"u2022", " ">>

\* draw.text((x, y), text, font=...)
DrawText(x, y, text, font) ==
    [op |-> "text", x |-> x, y |-> y, text |-> text, font |-> font, side |-> 0]

\* card.paste(qr_img, (x, y)), qr_img resized to (side, side)
Paste(x, y, side) ==
    [op |-> "paste", x |-> x, y |-> y, text |-> <<>>, font |-> "", side |-> side]

\* (mutant) the code is placed from the left and top edges
qr_x_FromLeft == QrInset

qr_x == card_width - QrInset

\* (mutant) the code is placed in the upper half of the card
qr_y_UpperHalf == card_height \div 2 - QrInset

qr_y == card_height - QrInset
qr_label_y == qr_y - LabelRise

ingredients_y == title_y + IngredientsDrop
ingredient_y == ingredients_y + ListDrop

\* (mutant) the subheading is put where the next ingredient line would be
instructions_y_NoGap(ingredients) == ingredient_y + Len(ingredients) * IngredientStep

instructions_y(ingredients) == ingredient_y + Len(ingredients) * IngredientStep + InstructionsGap
instruction_y(ingredients) == instructions_y(ingredients) + ListDrop

\* the card drawn from a title, the ingredients and the instruction previews,
\* with the fonts that could be loaded ("truetype") or the built-in one
DrawnCard(title, ingredients, instructions_preview, fonts) ==
    [width |-> card_width, height |-> card_height, fonts |-> fonts,
     ops |->
        <<DrawText(TextLeft, title_y, title, "title"),
          DrawText(TextLeft, ingredients_y, IngredientsLabel, "subtitle")>>
        \o [i \in 1..Len(ingredients) |->
               DrawText(ItemLeft, ingredient_y + (i - 1) * IngredientStep,
                        BulletMark \o ingredients[i], "body")]
        \o <<DrawText(TextLeft, instructions_y(ingredients), InstructionsLabel, "subtitle")>>
        \o [i \in 1..Len(instructions_preview) |->
               DrawText(ItemLeft, instruction_y(ingredients) + (i - 1) * InstructionStep,
                        Dec(i) \o <<".", " ">> \o instructions_preview[i], "body")]
        \o <<Paste(qr_x, qr_y, QrSide),
             DrawText(qr_x, qr_label_y, QrLabel, "body")>>]

(***************************************************************************)
(* The environment: events that arrive from outside the three stages.      *)
(***************************************************************************)
User == "user"
R1 == <<"r", "1">>
R2 == <<"r", "2">>
AudioUrl == <<"h", "t", "t", "p", ":", "/", "/", "h", "/", "a", ".", "m", "4", "a">>
Md1 == <<"#", " ", "A", "\n", "#", "#", " ", "I", "n", "g", "r", "e", "d", "i", "e", "n", "t", "s", "\n", "-", " ", "b">>
Md2 == <<"#", " ", "C">>
ChatRecipe == <<"H", "o", "w", " ", "t", "o", " ", "C", "o", "o", "k", " ", "r", "i", "c", "e">>
ChatPlain == <<"h", "e", "l", "l", "o">>

Ext(name, src, payload) == [name |-> name, src |-> src, payload |-> payload]

ExternalEvents ==
    {Ext(EvAudioNew, User, <<Item("audio_url", AudioUrl), Item("recipe_id", R1)>>),
     Ext(EvAudioNew, RecorderId, <<Item("audio_url", AudioUrl), Item("recipe_id", R1)>>),
     Ext(EvAudioNew, User, <<Item("recipe_id", R1)>>),
     Ext(EvAudioNew, User, <<Item("audio_url", AudioUrl)>>),
     Ext(EvMdProcessed, User, <<Item("content", Md1), Item("recipe_id", R1)>>),
     Ext(EvMdProcessed, User, <<Item("content", Md2), Item("recipe_id", R1)>>),
     Ext(EvMdProcessed, User, <<Item("content", Md2), Item("recipe_id", R2)>>),
     Ext(EvMdProcessed, CardMakerId, <<Item("content", Md1), Item("recipe_id", R1)>>),
     Ext(EvMdProcessed, User, <<Item("content", <<>>), Item("recipe_id", R1)>>),
     Ext(EvMdProcessed, User, <<Item("content", Md1)>>),
     Ext(EvChat, User, <<Item("text", ChatRecipe)>>),
     Ext(EvChat, User, <<Item("content", ChatPlain)>>),
     Ext(EvChat, LlmId, <<Item("text", ChatRecipe)>>),
     Ext(EvChat, User, <<Item("text", <<>>), Item("recipe_id", R1)>>)}

Inject ==
    /\ injected < MaxInject
    /\ \E x \in ExternalEvents :
          LET ev == MkEvent(EventId(injected + 1), x.name, x.src, x.payload)
          IN tasks' = tasks \cup Deliver(ev)
    /\ injected' = injected + 1
    /\ UNCHANGED <<last, store, files>>

(***************************************************************************)
(* The markdown texts the extraction is run on: up to MaxBlocks blocks of  *)
(* lines, joined by newlines.                                              *)
(***************************************************************************)
\* a text of n characters, no two neighbours alike
Ruler(n) == [i \in 1..n |-> DigitChars[(i % 10) + 1]]

\* three short bullet lines, one of them indented
Bullets3 == <<<<"-", " ", "a">>, <<"-", " ", "b">>, <<" ", "-", " ", "c", " ">>>>
\* a bullet of exactly the limit, and one a character longer
LongBullets ==
    <<<<"-", " ">> \o Ruler(IngredientLimit), <<"-", " ">> \o Ruler(IngredientLimit + 1)>>
\* two short numbered lines
Numbered2 == <<<<"1", ".", " ", "x">>, <<"1", "2", ".", " ", " ", "y">>>>
\* a numbered line a character longer than the limit, and one of exactly the limit
LongNumbered ==
    <<<<"3", ".", " ">> \o Ruler(InstructionLimit + 1),
      <<"4", ".", " ">> \o Ruler(InstructionLimit)>>

Blocks ==
    << <<<<"#", " ", "S", "o", "u", "p">>>>,
       <<<<" ", " ", "#", " ", "S", "t", "e", "w", " ">>>>,
       <<IngredientsHeaderEn>>,
       <<IngredientsHeaderZh>>,
       <<InstructionsHeaderEn>>,
       <<InstructionsHeaderZh>>,
       <<<<"#", "#", " ", "N", "o", "t", "e", "s">>>>,
       Bullets3,
       <<<<"-", " ", "i", "n", " ">> \o IngredientsHeaderEn>>,
       Numbered2,
       LongNumbered,
       <<<<"1", ".", " ", "s", "e", "e", " ">> \o InstructionsHeaderEn>>,
       <<<<"5", ".", "z">>, <<"-", "w">>>>,
       <<IngredientsHeaderEn>> \o Bullets3 \o LongBullets,
       <<InstructionsHeaderZh>> \o Numbered2 \o LongNumbered >>

\* '\n'.join(lines)
RECURSIVE Join(_)
Join(lines) ==
    IF Len(lines) = 0 THEN <<>>
    ELSE IF Len(lines) = 1 THEN lines[1]
    ELSE lines[1] \o <<"\n">> \o Join(Tail(lines))

RECURSIVE Flatten(_)
Flatten(blocks) ==
    IF Len(blocks) = 0 THEN <<>> ELSE Blocks[blocks[1]] \o Flatten(Tail(blocks))

Documents ==
    {Join(Flatten(bs)) : bs \in UNION {[1..n -> 1..Len(Blocks)] : n \in 0..MaxBlocks}}

(***************************************************************************)
(* The pipeline.                                                           *)
(***************************************************************************)
EmptyStore == [k \in {} |-> PngBytes(<<>>, <<>>)]

Init ==
    /\ tasks = {}
    /\ last = NoTask
    /\ store = EmptyStore
    /\ files = {}
    /\ injected = 0
    /\ scan = NoScan
    /\ log = <<>>
    /\ tool = NoTool

Next ==
    \/ Inject /\ UNCHANGED <<scan, log, tool>>
    \/ \E t \in tasks : Recorder_react(t) /\ UNCHANGED <<scan, log, tool>>
    \/ \E t \in tasks : Llm_react(t) /\ UNCHANGED <<scan, log, tool>>
    \/ \E t \in tasks : CardMaker_handle_recipe_processed(t) /\ UNCHANGED <<scan, log, tool>>
    \/ \E t \in tasks : CardMaker_put(t) /\ UNCHANGED <<scan, log, tool>>
    \/ \E t \in tasks : CardMaker_send_channel_message(t) /\ UNCHANGED <<scan, log, tool>>
    \/ \E t \in tasks : CardMaker_create_event(t) /\ UNCHANGED <<scan, log, tool>>

Spec == Init /\ [][Next]_vars

\* one event has arrived from outside and was handed to the stages
InitLive ==
    /\ \E x \in ExternalEvents :
          tasks = Deliver(MkEvent(EventId(1), x.name, x.src, x.payload))
    /\ last = NoTask
    /\ store = EmptyStore
    /\ files = {}
    /\ injected = 1
    /\ scan = NoScan
    /\ log = <<>>
    /\ tool = NoTool

\* a step of some handler invocation in flight
Handle ==
    \/ \E t \in tasks : Recorder_react(t) /\ UNCHANGED <<scan, log, tool>>
    \/ \E t \in tasks : Llm_react(t) /\ UNCHANGED <<scan, log, tool>>
    \/ \E t \in tasks : CardMaker_handle_recipe_processed(t) /\ UNCHANGED <<scan, log, tool>>
    \/ \E t \in tasks : CardMaker_put(t) /\ UNCHANGED <<scan, log, tool>>
    \/ \E t \in tasks : CardMaker_send_channel_message(t) /\ UNCHANGED <<scan, log, tool>>
    \/ \E t \in tasks : CardMaker_create_event(t) /\ UNCHANGED <<scan, log, tool>>

\* the pipeline after a single event from outside, on an event loop that runs
\* every handler it was handed: a coroutine that can go on does go on
SpecLive == InitLive /\ [][Handle]_vars /\ WF_vars(Handle)

(***************************************************************************)
(* The extraction on its own: generate_recipe_card is handed one of the    *)
(* Documents and runs its two loops.                                       *)
(***************************************************************************)
InitExtract ==
    /\ tasks = {}
    /\ last = NoTask
    /\ store = EmptyStore
    /\ files = {}
    /\ injected = 0
    /\ log = <<>>
    /\ tool = NoTool
    /\ \E markdown_content \in Documents : scan = StartScan(markdown_content)

\* the loop of lines 96-101
ExtractTitle ==
    /\ scan.pc = "title"
    /\ scan' = [scan EXCEPT !.title = ExtractedTitle(scan.lines), !.pc = "scan"]
    /\ UNCHANGED <<tasks, last, store, files, injected, log, tool>>

\* one iteration of the loop of lines 107-144
ScanLine ==
    /\ scan.pc = "scan"
    /\ scan' = ScanStep(scan)
    /\ UNCHANGED <<tasks, last, store, files, injected, log, tool>>

\* lines 156-207: the card is drawn from what the two loops extracted
DrawCard ==
    /\ scan.pc = "done"
    /\ \E fonts \in {"truetype", "default"} :
          scan' = [scan EXCEPT !.pc = "drawn",
                               !.card = DrawnCard(scan.title, scan.ingredients,
                                                  scan.instructions_preview, fonts)]
    /\ UNCHANGED <<tasks, last, store, files, injected, log, tool>>

NextExtract == ExtractTitle \/ ScanLine \/ DrawCard

SpecExtract == InitExtract /\ [][NextExtract]_vars

(***************************************************************************)
(* The card maker on its own: two recipe.md.processed events have been     *)
(* delivered to it, and their two handler invocations interleave at every  *)
(* await of generate_recipe_card.  No other stage runs: the events the     *)
(* card maker publishes stay in `tasks`, delivered and not yet handled.    *)
(***************************************************************************)
CardEvents ==
    {Ext(EvMdProcessed, User, <<Item("content", c), Item("recipe_id", r)>>) :
        c \in {Md1, Md2}, r \in {R1, R2}}

InitCard ==
    /\ \E x1 \in CardEvents, x2 \in CardEvents :
          tasks = {NewTask(CardMakerId, MkEvent(EventId(1), x1.name, x1.src, x1.payload)),
                   NewTask(CardMakerId, MkEvent(EventId(2), x2.name, x2.src, x2.payload))}
    /\ last = NoTask
    /\ store = EmptyStore
    /\ files = {}
    /\ injected = 2
    /\ scan = NoScan
    /\ log = <<>>
    /\ tool = NoTool

\* the invocation of task t as the step just taken leaves it
After(t) ==
    IF \E u \in tasks' : u.stage = t.stage /\ u.ev = t.ev
    THEN CHOOSE u \in tasks' : u.stage = t.stage /\ u.ev = t.ev
    ELSE last'

\* what the step just taken by task t adds to the log: the put it made, with
\* the value handed to the store, and its return
Logged(t) ==
    LET new == SubSeq(After(t).fx, Len(t.fx) + 1, Len(After(t).fx))
        puts == IF Len(new) > 0 /\ new[1].kind = "put"
                THEN <<[kind |-> "put", ev |-> t.ev, result |-> new[1].target]>>
                ELSE <<>>
        ends == IF After(t).pc = "done"
                THEN <<[kind |-> "return", ev |-> t.ev, result |-> After(t).outcome]>>
                ELSE <<>>
    IN log' = log \o puts \o ends

NextCard ==
    \/ \E t \in tasks : CardMaker_handle_recipe_processed(t) /\ Logged(t) /\ UNCHANGED <<scan, tool>>
    \/ \E t \in tasks : CardMaker_put(t) /\ Logged(t) /\ UNCHANGED <<scan, tool>>
    \/ \E t \in tasks : CardMaker_send_channel_message(t) /\ Logged(t) /\ UNCHANGED <<scan, tool>>
    \/ \E t \in tasks : CardMaker_create_event(t) /\ Logged(t) /\ UNCHANGED <<scan, tool>>

SpecCard == InitCard /\ [][NextCard]_vars

(***************************************************************************)
(* Properties.                                                             *)
(***************************************************************************)
\* the handler invocations whose steps are on record: those in flight and the
\* one that returned last
AllTasks == tasks \cup {last}

\* what a stage does to the world outside it
Downstream == {"put", "channel", "direct", "publish"}

HasFx(t, kind, target) ==
    \E i \in 1..Len(t.fx) : t.fx[i].kind = kind /\ t.fx[i].target = target

\* the recipe id an event carries
RecipeIdOf(ev) == Get(ev.payload, "recipe_id", Default)

\* C1: once a card.generated event for a recipe id has been emitted (it is being
\* handled downstream, or the card maker has just published it), the artifact
\* store holds a value under recipe_card_<id>.png.
C1_EventOnlyAfterStore ==
    /\ \A t \in tasks :
          (t.ev.event_name = EvCardGenerated /\ t.ev.source_id = CardMakerId)
              => CardKey(RecipeIdOf(t.ev)) \in DOMAIN store
    /\ (last.stage = CardMakerId /\ "publish" \in Kinds(last.fx))
          => CardKey(last.recipe_id) \in DOMAIN store

\* C2: a card maker invocation whose put did not store the card (it reported a
\* failure, or raised) publishes no card.generated event.
C2_NoEventAfterFailedPut ==
    \A t \in AllTasks :
        (t.stage = CardMakerId /\ (HasFx(t, "put", "failed") \/ HasFx(t, "put", "raise")))
            => "publish" \notin Kinds(t.fx)

\* C3: an invocation of a stage for an event whose source is the stage itself
\* has no downstream effect: nothing stored, nothing sent, nothing published.
C3_SelfEventsIgnored ==
    \A t \in AllTasks :
        t.ev.source_id = t.stage => Kinds(t.fx) \cap Downstream = {}

\* C4: an invocation that returned after its transform succeeded (recorder: the
\* audio was transcribed; card maker: the card was stored), with no collaborator
\* raising afterwards, has published exactly one event.
C4_ExactlyOnePublishOnSuccess ==
    (/\ last.pc = "done"
     /\ last.outcome \notin {"notify_error", "publish_error"}
     /\ \/ last.stage = RecorderId /\ HasFx(last, "transcribe", "ok")
        \/ last.stage = CardMakerId /\ HasFx(last, "put", "stored"))
        => Count(last.fx, "publish") = 1

\* C5: when the recorder has published the text of an audio.new event and
\* everything that followed from it has been handled (the last invocation to
\* return handled the recorder's event, and nothing is in flight), the store
\* holds the card of that recipe id.
C5_ChainEndsInCard ==
    (/\ tasks = {}
     /\ last.ev.source_id = RecorderId
     /\ last.ev.event_name = EvText)
        => CardKey(RecipeIdOf(last.ev)) \in DOMAIN store

\* the event name a stage subscribes to
Subscribed(s) ==
    CASE s = RecorderId -> EvAudioNew
      [] s = LlmId -> EvChat
      [] s = CardMakerId -> EvMdProcessed
      [] OTHER -> ""

\* C6: an invocation of a stage for an event of a name the stage does not
\* subscribe to has no downstream effect.
C6_OnlySubscribedNames ==
    \A t \in AllTasks :
        t.ev.event_name # Subscribed(t.stage) => Kinds(t.fx) \cap Downstream = {}

\* C7: a recorder invocation whose download failed (a response other than 200,
\* or an exception) made one fetch attempt, wrote no file, called the
\* transcription zero times, sent no channel message and published nothing.
C7_FetchFailureStopsHandler ==
    \A t \in AllTasks :
        (t.stage = RecorderId /\ (HasFx(t, "fetch", "404") \/ HasFx(t, "fetch", "raise")))
            => /\ Count(t.fx, "fetch") = 1
               /\ Kinds(t.fx) = {"fetch"}
               /\ t.pc = "done"

C7_Witness ==
    /\ last.stage = RecorderId
    /\ last.ev.event_name = EvAudioNew
    /\ HasFx(last, "fetch", "404")
    /\ last.pc = "done"

\* C8: a card maker invocation whose rendering failed has returned, and wrote
\* no artifact, sent no channel message and published nothing.
C8_RenderFailureWritesNothing ==
    \A t \in AllTasks :
        (t.stage = CardMakerId /\ HasFx(t, "render", "raise"))
            => /\ Kinds(t.fx) = {"render"}
               /\ t.pc = "done"

C8_Witness ==
    /\ last.stage = CardMakerId
    /\ last.ev.event_name = EvMdProcessed
    /\ HasFx(last, "render", "raise")
    /\ last.outcome = "render_error"

\* C9: no handler lets an exception out: every invocation returns normally.
C9_HandlerReturnsNormally == last.outcome # "escaped"

\* the ways an invocation ends in failure (with the failure message, if any,
\* delivered)
Failures ==
    {"fetch_failed", "fetch_error", "transcription_error", "render_error",
     "storage_error", "notify_error", "publish_error", "reported"}

\* C10: an invocation that failed has sent a failure message directly to the
\* source of its event.
C10_FailureNotice ==
    (last.pc = "done" /\ last.outcome \in Failures)
        => \E i \in 1..Len(last.fx) :
              /\ last.fx[i].kind = "direct"
              /\ last.fx[i].target = last.ev.source_id
              /\ last.fx[i].arg \notin {AckText, ProcessingText}

\* the text of a chat message: what its payload carries as content, text or
\* message
MessageText(payload) ==
    LET c1 == Get(payload, "content", <<>>)
        c2 == IF c1 = <<>> THEN Get(payload, "text", <<>>) ELSE c1
    IN IF c2 = <<>> THEN Get(payload, "message", <<>>) ELSE c2

\* C11: an LlmAgent invocation for a chat.message event that returned with no
\* collaborator raising has, when the message text contains a keyword
\* (case-insensitively), published exactly one recipe.text.transcribed event
\* whose content is that text; otherwise it has published nothing and sent
\* exactly one direct message, the acknowledgment, to the source of the event.
C11_ChatClassification ==
    (/\ last.stage = LlmId
     /\ last.ev.event_name = EvChat
     /\ last.outcome \in {"published", "acknowledged"})
        => LET text == MessageText(last.ev.payload)
           IN IF IsRecipeRequest(text)
              THEN /\ Count(last.fx, "publish") = 1
                   /\ HasFx(last, "publish", EvTextTranscribed)
                   /\ last.data = text
              ELSE /\ Count(last.fx, "publish") = 0
                   /\ Count(last.fx, "direct") = 1
                   /\ last.fx[1] = Fx("direct", last.ev.source_id, AckText)

(***************************************************************************)
(* Properties of the extraction (SpecExtract).                             *)
(***************************************************************************)
\* the stripped line n of the text being scanned
LineAt(n) == Strip(scan.lines[n])

\* the elements of a set of numbers, in increasing order
RECURSIVE Ascending(_)
Ascending(S) ==
    IF S = {} THEN <<>>
    ELSE LET m == CHOOSE x \in S : \A y \in S : x <= y
         IN <<m>> \o Ascending(S \ {m})

\* what a line does to the section it stands in
HeaderKind(line) ==
    IF StartsWith(line, IngredientsHeaderZh) \/ Contains(line, IngredientsHeaderEn)
    THEN "ingredients"
    ELSE IF StartsWith(line, InstructionsHeaderZh) \/ Contains(line, InstructionsHeaderEn)
    THEN "instructions"
    ELSE IF StartsWith(line, <<"#", "#">>) THEN "other"
    ELSE "none"

\* line n lies in the span of a section of the kind: after a header of that
\* kind, with no '##'-prefixed line in between
InSpan(kind, n) ==
    \E h \in 1..(n - 1) :
        /\ HeaderKind(LineAt(h)) = kind
        /\ \A j \in (h + 1)..(n - 1) : ~StartsWith(LineAt(j), <<"#", "#">>)

\* C12: at every step of the scan at most 5 ingredients and at most 3
\* instruction previews have been captured.
C12_ExtractionBounds ==
    /\ Len(scan.ingredients) <= 5
    /\ Len(scan.instructions_preview) <= 3

\* five ingredients captured, and a sixth bullet line left in the text
C12_Witness ==
    /\ scan.pc = "done"
    /\ Len(scan.ingredients) = 5
    /\ \E n \in (scan.line_num + 1)..Len(scan.lines) : StartsWith(LineAt(n), <<"-", " ">>)

\* C13: when the scan is over, every captured ingredient comes from a bullet line in the span of an
\* ingredients header, every captured instruction from a numbered line in the
\* span of an instructions header; a text with no title line and no recognized
\* header gives the default title and two empty sequences.
C13_SectionSpan ==
    scan.pc = "done" =>
    /\ \A k \in 1..Len(scan.ingredient_lines) :
          /\ StartsWith(LineAt(scan.ingredient_lines[k]), <<"-", " ">>)
          /\ InSpan("ingredients", scan.ingredient_lines[k])
    /\ \A k \in 1..Len(scan.instruction_lines) :
          /\ MatchesNumbered(LineAt(scan.instruction_lines[k]))
          /\ InSpan("instructions", scan.instruction_lines[k])
    /\ Len(scan.ingredient_lines) = Len(scan.ingredients)
    /\ Len(scan.instruction_lines) = Len(scan.instructions_preview)
    /\ (\A n \in 1..Len(scan.lines) :
            /\ ~StartsWith(LineAt(n), <<"#", " ">>)
            /\ HeaderKind(LineAt(n)) \notin {"ingredients", "instructions"})
          => /\ scan.title = DefaultTitle
             /\ scan.ingredients = <<>>
             /\ scan.instructions_preview = <<>>

\* the scan has captured an ingredient, and has passed a bullet line it did
\* not capture: one after a '##' header that is not recognized
C13_Witness ==
    /\ scan.pc = "done"
    /\ Len(scan.ingredients) >= 1
    /\ \E n \in 2..scan.line_num :
          /\ StartsWith(LineAt(n), <<"-", " ">>)
          /\ HeaderKind(LineAt(n - 1)) = "other"
          /\ \A k \in 1..Len(scan.ingredient_lines) : scan.ingredient_lines[k] # n

\* the bullet lines inside ingredients sections, in document order
SectionBullets ==
    Ascending({n \in 1..Len(scan.lines) :
                  /\ StartsWith(LineAt(n), <<"-", " ">>)
                  /\ HeaderKind(LineAt(n)) = "none"      \* a header is no item
                  /\ \E h \in 1..(n - 1) :
                        /\ HeaderKind(LineAt(h)) = "ingredients"
                        /\ \A j \in (h + 1)..(n - 1) : HeaderKind(LineAt(j)) = "none"})

\* the text of an item as it stands in its line, before any cut
BulletText(n) == Strip(From(LineAt(n), 2))
NumberedText(n) == Strip(SubNumbered(LineAt(n)))

\* the text of an item cut to its limit
Cut(text, limit) ==
    IF Len(text) > limit THEN SubSeq(text, 1, limit) \o <<".", ".", ".">> ELSE text

\* C14: when the scan is over, the ingredients are the first min(5, n) of the
\* n bullet lines inside ingredients sections, in document order.
C14_FirstFiveInOrder ==
    scan.pc = "done"
        => LET n == Len(SectionBullets)
               m == IF n < 5 THEN n ELSE 5
           IN scan.ingredients = [k \in 1..m |-> Cut(BulletText(SectionBullets[k]), 80)]

\* seven bullet lines in ingredients sections, five of them captured
C14_Witness ==
    /\ scan.pc = "done"
    /\ Len(SectionBullets) >= 7
    /\ Len(scan.ingredients) = 5
    /\ scan.ingredients[1] # scan.ingredients[2]

\* the lines that, stripped, start with '# '
TitleLines == {n \in 1..Len(scan.lines) : StartsWith(LineAt(n), <<"#", " ">>)}

\* C15: when the extraction is over, the title is the text after '# ' of the
\* first line that starts with '# ', wherever it stands, and the default title
\* when there is none.
C15_Title ==
    scan.pc = "done"
        => IF TitleLines = {}
           THEN scan.title = DefaultTitle
           ELSE scan.title = Strip(From(LineAt(Ascending(TitleLines)[1]), 2))

\* the fifth ingredient ended the scan, the only title line stands after that
\* line and after a '##' header, and it supplied the title
C15_Witness ==
    /\ scan.pc = "done"
    /\ Len(scan.ingredients) = 5
    /\ TitleLines # {}
    /\ \A n \in TitleLines : n > scan.line_num
    /\ scan.title = <<"S", "o", "u", "p">>

\* C16: when the scan is over, a captured ingredient longer than 80 characters (instruction: 60) is
\* returned as its first 80 (60) characters followed by '...', of length 83
\* (63); one of at most 80 (60) characters is returned unchanged.
C16_Truncation ==
    scan.pc = "done" =>
    /\ \A k \in 1..Len(scan.ingredients) :
          LET text == BulletText(scan.ingredient_lines[k])
          IN IF Len(text) > 80
             THEN /\ scan.ingredients[k] = SubSeq(text, 1, 80) \o <<".", ".", ".">>
                  /\ Len(scan.ingredients[k]) = 83
             ELSE scan.ingredients[k] = text
    /\ \A k \in 1..Len(scan.instructions_preview) :
          LET text == NumberedText(scan.instruction_lines[k])
          IN IF Len(text) > 60
             THEN /\ scan.instructions_preview[k] = SubSeq(text, 1, 60) \o <<".", ".", ".">>
                  /\ Len(scan.instructions_preview[k]) = 63
             ELSE scan.instructions_preview[k] = text

\* an ingredient of exactly 80 characters kept whole, one of 81 cut, and an
\* instruction of 61 characters cut
C16_Witness ==
    /\ scan.pc = "done"
    /\ \E k \in 1..Len(scan.ingredients) :
          Len(BulletText(scan.ingredient_lines[k])) = 80 /\ Len(scan.ingredients[k]) = 80
    /\ \E k \in 1..Len(scan.ingredients) :
          Len(BulletText(scan.ingredient_lines[k])) = 81 /\ Len(scan.ingredients[k]) = 83
    /\ \E k \in 1..Len(scan.instructions_preview) :
          Len(NumberedText(scan.instruction_lines[k])) = 61
              /\ Len(scan.instructions_preview[k]) = 63

(***************************************************************************)
(* Properties of the card maker's outputs (Spec).                          *)
(***************************************************************************)
EndsWith(s, suffix) ==
    /\ Len(s) >= Len(suffix)
    /\ SubSeq(s, Len(s) - Len(suffix) + 1, Len(s)) = suffix

\* 'recipe_card_' + id + '.png'
KeyFor(id) ==
    <<"r", "e", "c", "i", "p", "e", "_", "c", "a", "r", "d", "_">> \o id \o <<".", "p", "n", "g">>

\* the card maker invocations for an event that carries a recipe id
CardRuns == {t \in AllTasks : t.stage = CardMakerId /\ Has(t.ev.payload, "recipe_id")}

\* C17: a card maker invocation writes under exactly 'recipe_card_' + id + '.png'
\* for the recipe id of its event, the card it stores links to .../recipes/ + id,
\* and the card.generated event it publishes carries that id and a card_url that
\* ends in that key.
C17_RecipeIdVerbatim ==
    \A t \in CardRuns :
        LET id == Get(t.ev.payload, "recipe_id", <<>>)
        IN /\ \A i \in 1..Len(t.fx) : t.fx[i].kind = "put" => t.fx[i].arg = KeyFor(id)
           /\ HasFx(t, "put", "stored")
                 => /\ KeyFor(id) \in DOMAIN store
                    /\ EndsWith(store[KeyFor(id)].qr_url,
                                <<"/", "r", "e", "c", "i", "p", "e", "s", "/">> \o id)
           /\ \A i \in 1..Len(t.fx) :
                 t.fx[i].kind = "channel" => EndsWith(t.fx[i].arg, KeyFor(id))
           /\ (t = last /\ t.outcome = "published")
                 => \E c \in tasks :
                       /\ c.ev.id = ChildId(t)
                       /\ c.ev.event_name = EvCardGenerated
                       /\ Get(c.ev.payload, "recipe_id", <<>>) = id
                       /\ EndsWith(Get(c.ev.payload, "card_url", <<>>), KeyFor(id))

\* a card maker invocation for recipe id r1 has stored its card and published
C17_Witness ==
    /\ last \in CardRuns
    /\ last.outcome = "published"
    /\ Get(last.ev.payload, "recipe_id", <<>>) = <<"r", "1">>
    /\ HasFx(last, "put", "stored")

(***************************************************************************)
(* Properties of two interleaved card maker invocations (SpecCard).        *)
(***************************************************************************)
\* the events the two invocations were started for
InputEvents ==
    {t.ev : t \in {u \in tasks : u.stage = CardMakerId}} \cup {log[i].ev : i \in 1..Len(log)}

\* the card.generated events published so far
Emitted == {t.ev : t \in {u \in tasks : u.ev.event_name = EvCardGenerated}}

\* the card rendered from the markdown and the recipe id of an event
CardOf(ev) ==
    PngBytes(Get(ev.payload, "content", <<>>), Get(ev.payload, "recipe_id", <<>>))

StoredPuts == {i \in 1..Len(log) : log[i].kind = "put" /\ log[i].result = "stored"}
Published == {i \in 1..Len(log) : log[i].kind = "return" /\ log[i].result = "published"}

\* the card.generated event of the run of event ev carries that run's recipe id
\* and the download url of its key
HasOwnEvent(ev) ==
    \E c \in Emitted :
        /\ c.id = ev.id \o <<"/", "c">>
        /\ Get(c.payload, "recipe_id", <<>>) = RecipeIdOf(ev)
        /\ EndsWith(Get(c.payload, "card_url", <<>>), KeyFor(RecipeIdOf(ev)))

\* C18: when the two events carry different recipe ids then, however the two
\* invocations interleave, the store holds under the key of each run that
\* stored its card the card rendered from that run's own markdown, and every
\* run that published has its own card.generated event, with its own id and
\* url, and there is no other event.
C18_DifferentIdsDoNotInterfere ==
    (\A e1 \in InputEvents, e2 \in InputEvents : e1 # e2 => RecipeIdOf(e1) # RecipeIdOf(e2))
        => /\ \A i \in StoredPuts :
                 /\ KeyFor(RecipeIdOf(log[i].ev)) \in DOMAIN store
                 /\ store[KeyFor(RecipeIdOf(log[i].ev))] = CardOf(log[i].ev)
           /\ \A i \in Published : HasOwnEvent(log[i].ev)
           /\ Cardinality(Emitted) = Cardinality(Published)

\* both runs put before either returned, both published, and the ids differ
C18_Witness ==
    /\ Len(log) = 4
    /\ StoredPuts = {1, 2}
    /\ Published = {3, 4}
    /\ RecipeIdOf(log[1].ev) # RecipeIdOf(log[2].ev)
    /\ Get(log[1].ev.payload, "content", <<>>) # Get(log[2].ev.payload, "content", <<>>)

\* C19: when two runs for the same recipe id have both stored a card, the store
\* holds under recipe_card_<id>.png the card of the run whose put completed
\* last; and when both runs have published, two card.generated events have
\* been emitted, one per run.
C19_SameIdLastWriterWins ==
    /\ \A i \in StoredPuts, j \in StoredPuts :
          (/\ i < j
           /\ RecipeIdOf(log[i].ev) = RecipeIdOf(log[j].ev)
           /\ \A k \in StoredPuts : k <= j)
              => /\ KeyFor(RecipeIdOf(log[j].ev)) \in DOMAIN store
                 /\ store[KeyFor(RecipeIdOf(log[j].ev))] = CardOf(log[j].ev)
                 /\ Cardinality(DOMAIN store) = 1
    /\ \A i \in Published, j \in Published :
          (i < j /\ RecipeIdOf(log[i].ev) = RecipeIdOf(log[j].ev))
              => /\ HasOwnEvent(log[i].ev)
                 /\ HasOwnEvent(log[j].ev)
                 /\ Cardinality(Emitted) = 2

\* two runs for the same id and different markdown: the run that put first
\* returned last, and both published
C19_Witness ==
    /\ Len(log) = 4
    /\ StoredPuts = {1, 2}
    /\ Published = {3, 4}
    /\ log[3].ev = log[2].ev
    /\ RecipeIdOf(log[1].ev) = RecipeIdOf(log[2].ev)
    /\ CardOf(log[1].ev) # CardOf(log[2].ev)
    /\ store[KeyFor(RecipeIdOf(log[2].ev))] = CardOf(log[2].ev)

(***************************************************************************)
(* Properties of the drawn card (SpecExtract).                             *)
(***************************************************************************)
\* the paste operations of the drawn card, and its caption
Pastes == {i \in 1..Len(scan.card.ops) : scan.card.ops[i].op = "paste"}

\* the code and its caption, with the given margin to the right and bottom edges
QrPlaced(margin) ==
    /\ scan.card.width = 600
    /\ scan.card.height = 800
    /\ Cardinality(Pastes) = 1
    /\ \A i \in Pastes :
          LET qr == scan.card.ops[i]
          IN /\ qr.side = 100
             /\ qr.x + qr.side + margin = scan.card.width
             /\ qr.y + qr.side + margin = scan.card.height
             /\ \E j \in 1..Len(scan.card.ops) :
                   /\ scan.card.ops[j].op = "text"
                   /\ scan.card.ops[j].text = QrLabel
                   /\ scan.card.ops[j].x = qr.x
                   /\ scan.card.ops[j].y = qr.y - 30

\* C20 (as stated): on the drawn 600x800 card the 100x100 code stands 80 units
\* from the right edge and 80 units from the bottom edge, its caption 30 units
\* above its top edge at its x position.
C20_QrMargin80 == scan.pc = "drawn" => QrPlaced(80)

\* C20 (amended): the same with a margin of 30 units: the code's top-left
\* corner is at (470, 670), 130 units from the right and bottom edges.
C20_QrMargin30 == scan.pc = "drawn" => QrPlaced(30)

\* a card drawn with five ingredients and the code pasted at (470, 670)
C20_Witness ==
    /\ scan.pc = "drawn"
    /\ Len(scan.ingredients) = 5
    /\ \E i \in Pastes : scan.card.ops[i].x = 470 /\ scan.card.ops[i].y = 670

\* the text operations of the drawn card for a summary of n ingredients and m
\* instruction previews: the title, the two subheadings and the items
TitleOp == scan.card.ops[1]
IngredientsHeadOp == scan.card.ops[2]
IngredientOp(i) == scan.card.ops[3 + i]
InstructionsHeadOp == scan.card.ops[3 + Len(scan.ingredients)]
InstructionOp(j) == scan.card.ops[4 + Len(scan.ingredients) + j]

At(o, x, y) == o.op = "text" /\ o.x = x /\ o.y = y

\* the part of the layout above the instructions subheading, and the spacing
\* of the instruction lines below it
LayoutAround(heading_y) ==
    LET n == Len(scan.ingredients)
        m == Len(scan.instructions_preview)
    IN /\ Len(scan.card.ops) = n + m + 5
       /\ At(TitleOp, 30, 40) /\ TitleOp.text = scan.title
       /\ At(IngredientsHeadOp, 30, 110) /\ IngredientsHeadOp.text = IngredientsLabel
       /\ \A i \in 0..(n - 1) :
             /\ At(IngredientOp(i), 40, 150 + 30 * i)
             /\ EndsWith(IngredientOp(i).text, scan.ingredients[i + 1])
       /\ At(InstructionsHeadOp, 30, heading_y)
       /\ InstructionsHeadOp.text = InstructionsLabel
       /\ \A j \in 0..(m - 1) :
             /\ InstructionOp(j).op = "text"
             /\ InstructionOp(j).x = 40
             /\ InstructionOp(j).y > heading_y
             /\ EndsWith(InstructionOp(j).text, scan.instructions_preview[j + 1])
             /\ j > 0 => InstructionOp(j).y = InstructionOp(j - 1).y + 25

\* C21 (as stated): on the drawn card the title is at (30, 40), the ingredients
\* subheading at (30, 110), ingredient i at (40, 150 + 30*i), the instructions
\* subheading 30 units below the last ingredient line, and the instructions on
\* lines 25 units apart below it.
C21_LayoutAsStated ==
    (scan.pc = "drawn" /\ Len(scan.ingredients) > 0)
        => LayoutAround(IngredientOp(Len(scan.ingredients) - 1).y + 30)

\* C21 (amended): the same, with the instructions subheading at
\* (30, 180 + 30*n) for n ingredients: 60 units below the last ingredient line,
\* 30 units below where a further ingredient line would stand; and instruction
\* j at (40, 220 + 30*n + 25*j).
C21_Layout ==
    scan.pc = "drawn"
        => /\ LayoutAround(180 + 30 * Len(scan.ingredients))
           /\ \A j \in 0..(Len(scan.instructions_preview) - 1) :
                 InstructionOp(j).y = 220 + 30 * Len(scan.ingredients) + 25 * j

\* a card drawn from five ingredients and three instruction previews
C21_Witness ==
    /\ scan.pc = "drawn"
    /\ Len(scan.ingredients) = 5
    /\ Len(scan.instructions_preview) = 3
    /\ InstructionOp(2).y = 420

(***************************************************************************)
(* Properties of the instruction previews (SpecExtract).                   *)
(***************************************************************************)
\* line n stands inside an instructions section and is no header itself
InInstructions(n) ==
    /\ HeaderKind(LineAt(n)) = "none"
    /\ \E h \in 1..(n - 1) :
          /\ HeaderKind(LineAt(h)) = "instructions"
          /\ \A j \in (h + 1)..(n - 1) : HeaderKind(LineAt(j)) = "none"

\* one or more digits, a period, whitespace (asked for, or optional), then text
NumberedShape(line, spaced) ==
    \E k \in 1..(Len(line) - 2) :
        /\ \A j \in 1..k : \E d \in 1..Len(DigitChars) : DigitChars[d] = line[j]
        /\ line[k + 1] = "."
        /\ spaced => line[k + 2] \in {" ", "\t"}

\* the scanned lines of that shape inside instructions sections, in order
NumberedLines(spaced) ==
    Ascending({n \in 1..scan.line_num :
                  NumberedShape(LineAt(n), spaced) /\ InInstructions(n)})

\* the first three of them at most, as line numbers
FirstThree(spaced) ==
    LET all == NumberedLines(spaced)
    IN SubSeq(all, 1, IF Len(all) < 3 THEN Len(all) ELSE 3)

\* C22: when the fifth ingredient has been captured the scan is over at that
\* line: the instruction previews are the (first three) numbered lines of
\* instructions sections that precede it, and no numbered line after it is
\* captured.
C22_EarlyExit ==
    (scan.pc = "done" /\ Len(scan.ingredients) = 5)
        => /\ scan.line_num = scan.ingredient_lines[5]
           /\ \A k \in 1..Len(scan.instruction_lines) :
                 scan.instruction_lines[k] < scan.ingredient_lines[5]
           /\ scan.instruction_lines =
                 LET before == Ascending({n \in 1..(scan.ingredient_lines[5] - 1) :
                                  NumberedShape(LineAt(n), TRUE) /\ InInstructions(n)})
                 IN SubSeq(before, 1, IF Len(before) < 3 THEN Len(before) ELSE 3)

\* the fifth ingredient ended the scan with fewer than three previews held,
\* and a numbered line of an instructions section stands after it
C22_Witness ==
    /\ scan.pc = "done"
    /\ Len(scan.ingredients) = 5
    /\ Len(scan.instructions_preview) < 3
    /\ \E n \in (scan.line_num + 1)..Len(scan.lines) :
          NumberedShape(LineAt(n), TRUE) /\ InInstructions(n)

\* C23 (as stated): when the scan is over, the captured instructions are the
\* first three at most of the scanned lines, inside instructions sections, made
\* of digits, a period, optional whitespace (none included) and text, each with
\* its numeric prefix stripped.
C23_OptionalWhitespace ==
    scan.pc = "done"
        => /\ scan.instruction_lines = FirstThree(FALSE)
           /\ \A k \in 1..Len(scan.instructions_preview) :
                 scan.instructions_preview[k] = Cut(NumberedText(scan.instruction_lines[k]), 60)

\* C23 (amended): the same for the lines made of digits, a period, at least one
\* whitespace character and text; a line with nothing between the period and
\* the text ('1.Chop') is not captured.
C23_NumberedLines ==
    scan.pc = "done"
        => /\ scan.instruction_lines = FirstThree(TRUE)
           /\ \A k \in 1..Len(scan.instructions_preview) :
                 LET line == LineAt(scan.instruction_lines[k])
                     digits == CHOOSE d \in 1..Len(line) : line[d] = "."
                 IN scan.instructions_preview[k] = Cut(Strip(From(line, digits)), 60)

\* a line with two blanks after its period was captured without its prefix,
\* and a line with none, inside the same section, was passed over
C23_Witness ==
    /\ scan.pc = "done"
    /\ \E k \in 1..Len(scan.instructions_preview) :
          /\ scan.instructions_preview[k] = <<"y">>
          /\ LineAt(scan.instruction_lines[k]) = <<"1", "2", ".", " ", " ", "y">>
    /\ Len(scan.instructions_preview) < 3
    /\ \E n \in 1..scan.line_num :
          /\ LineAt(n) = <<"5", ".", "z">>
          /\ InInstructions(n)

(***************************************************************************)
(* Properties of the section flags (SpecExtract).                          *)
(***************************************************************************)
\* the scan has just read a line
ScannedLine == scan.pc = "scan" /\ scan'.pc \in {"scan", "done"}

\* what the step that read the line did to the flags and to the captured items
FlagsStep ==
    LET kind == HeaderKind(Strip(scan.lines[scan.line_num + 1]))
    IN /\ kind = "ingredients"
            => scan'.ingredients_section /\ ~scan'.instructions_section
       /\ kind = "instructions"
            => ~scan'.ingredients_section /\ scan'.instructions_section
       /\ kind = "other"
            => ~scan'.ingredients_section /\ ~scan'.instructions_section
       /\ kind = "none"
            => /\ scan'.ingredients_section = scan.ingredients_section
               /\ scan'.instructions_section = scan.instructions_section
       /\ kind \in {"ingredients", "instructions"}
            => /\ scan'.ingredients = scan.ingredients
               /\ scan'.instructions_preview = scan.instructions_preview

\* C24: the two section flags are never both set; a step of the scan that reads
\* a recognized ingredients header sets exactly the ingredients flag, one that
\* reads a recognized instructions header exactly the instructions flag, one
\* that reads another '##' line clears both, any other leaves both as they
\* were; and a step that reads a header captures nothing.
C24_SectionFlags ==
    /\ [](~(scan.ingredients_section /\ scan.instructions_section))
    /\ [][ScannedLine => FlagsStep]_vars

\* inside an ingredients section the scan has read a line that starts with
\* '- ' and holds the ingredients header, and has not captured it
C24_Witness ==
    /\ scan.pc \in {"scan", "done"}
    /\ scan.line_num >= 2
    /\ StartsWith(LineAt(scan.line_num), <<"-", " ">>)
    /\ HeaderKind(LineAt(scan.line_num)) = "ingredients"
    /\ HeaderKind(LineAt(scan.line_num - 1)) = "none"
    /\ InSpan("ingredients", scan.line_num)
    /\ scan.ingredients_section
    /\ Len(scan.ingredients) >= 1
    /\ \A k \in 1..Len(scan.ingredient_lines) : scan.ingredient_lines[k] # scan.line_num

(***************************************************************************)
(* The agent's extraction and the tool's, run over one markdown text side  *)
(* by side: both title loops, then one line of each scan at a time.        *)
(***************************************************************************)
InitPair ==
    /\ tasks = {}
    /\ last = NoTask
    /\ store = EmptyStore
    /\ files = {}
    /\ injected = 0
    /\ log = <<>>
    /\ \E markdown_content \in Documents :
          /\ scan = StartScan(markdown_content)
          /\ tool = Tool_Start(markdown_content)

\* the two title loops (card_maker.py 96-101, generate_card.py 24-28)
PairTitle ==
    /\ scan.pc = "title"
    /\ tool.pc = "title"
    /\ scan' = [scan EXCEPT !.title = ExtractedTitle(scan.lines), !.pc = "scan"]
    /\ tool' = [tool EXCEPT !.title = Tool_Title(tool.lines), !.pc = "scan"]
    /\ UNCHANGED <<tasks, last, store, files, injected, log>>

\* one iteration of each scan loop that has not ended
PairLine ==
    /\ scan.pc = "scan" \/ tool.pc = "scan"
    /\ scan' = IF scan.pc = "scan" THEN ScanStep(scan) ELSE scan
    /\ tool' = IF tool.pc = "scan" THEN Tool_ScanStep(tool) ELSE tool
    /\ UNCHANGED <<tasks, last, store, files, injected, log>>

NextPair == PairTitle \/ PairLine

SpecPair == InitPair /\ [][NextPair]_vars

(***************************************************************************)
(* Properties of the chat intake (Spec).                                   *)
(***************************************************************************)
\* the positions in the effects of the last invocation of a kind of effect
Where(kind) == {i \in 1..Len(last.fx) : last.fx[i].kind = kind}

\* the failure messages the last invocation sent to the source of its event
FailureNotes ==
    {i \in Where("direct") :
        /\ last.fx[i].target = last.ev.source_id
        /\ StartsWith(last.fx[i].arg, ErrorPrefix)}

\* C25: in an LlmAgent invocation for a recipe request, the event is published
\* only after the acknowledgment went to the sender, the channel is told only
\* after the event was published, and when the publishing failed (the
\* acknowledgment went out, no event did) the channel is not told and one
\* failure message goes to the sender, unless sending that message fails too.
C25_ChatEffectOrder ==
    (last.stage = LlmId /\ last.pc = "done" /\ IsRecipeRequest(last.data))
        => /\ \A i \in Where("publish") :
                 \E j \in 1..(i - 1) :
                     last.fx[j] = Fx("direct", last.ev.source_id, ProcessingText)
           /\ \A i \in Where("channel") : \E j \in Where("publish") : j < i
           /\ (Where("publish") = {} /\ Len(last.fx) >= 1
                  /\ last.fx[1] = Fx("direct", last.ev.source_id, ProcessingText))
                 => /\ Where("channel") = {}
                    /\ Cardinality(FailureNotes) <= 1
                    /\ FailureNotes = {} <=> last.outcome = "escaped"

\* the acknowledgment went out, publishing the event failed, and the failure
\* message was sent to the sender
C25_Witness ==
    /\ last.stage = LlmId
    /\ last.ev.event_name = EvChat
    /\ last.outcome = "reported"
    /\ Len(last.fx) = 2
    /\ last.fx[1] = Fx("direct", last.ev.source_id, ProcessingText)
    /\ FailureNotes = {2}

(***************************************************************************)
(* Properties of the inputs a stage ignores (Spec).                        *)
(***************************************************************************)
\* the effects of invocation t of a kind
FxOf(t, kind) == {t.fx[i] : i \in {j \in 1..Len(t.fx) : t.fx[j].kind = kind}}

\* every name invocation t derived from the recipe id is derived from `id`
NamesUse(t, id) ==
    /\ t.pc # "pending" => t.recipe_id = id
    /\ \A f \in FxOf(t, "put") : f.arg = CardKey(id)
    /\ \A f \in FxOf(t, "write_file") : f.arg = TempFilename(id)
    /\ t.stage = CardMakerId =>
          \A f \in FxOf(t, "channel") : f.arg = CardReadyPrefix \o DownloadUrl(id)
    /\ \A u \in tasks :
          (u.ev.id = ChildId(t) /\ t.stage \in {CardMakerId, RecorderId})
              => Get(u.ev.payload, "recipe_id", <<>>) = id

\* C26: no invocation of the card maker goes on (renders, stores, notifies,
\* publishes) for a recipe.md.processed event whose content is empty or missing,
\* and none of the recorder (fetches, notifies, publishes) for a
\* recipe.audio.new event whose audio_url is empty or missing; an event without
\* a recipe_id is processed, under the id 'default'.
C26_EmptyInputNoOp ==
    \A t \in AllTasks :
        /\ t.stage = CardMakerId => Get(t.ev.payload, "content", <<>>) # <<>>
        /\ t.stage = RecorderId => Get(t.ev.payload, "audio_url", <<>>) # <<>>
        /\ (t.stage \in {CardMakerId, RecorderId} /\ ~Has(t.ev.payload, "recipe_id"))
              => NamesUse(t, Default)

\* a recipe.md.processed event with an empty content went to the stages: the
\* chat intake handled it, the card maker did nothing
C26_Witness ==
    /\ last.stage = LlmId
    /\ last.pc = "done"
    /\ last.ev.event_name = EvMdProcessed
    /\ Has(last.ev.payload, "content")
    /\ Get(last.ev.payload, "content", <<>>) = <<>>
    /\ \A t \in AllTasks : t.stage # CardMakerId
    /\ store = EmptyStore

\* line n is a bullet line inside an ingredients section
IsSectionBullet(n) ==
    /\ StartsWith(LineAt(n), <<"-", " ">>)
    /\ HeaderKind(LineAt(n)) = "none"
    /\ \E h \in 1..(n - 1) :
          /\ HeaderKind(LineAt(h)) = "ingredients"
          /\ \A j \in (h + 1)..(n - 1) : HeaderKind(LineAt(j)) = "none"

\* the lines the scan captured as ingredients
IngredientLineSet == {scan.ingredient_lines[k] : k \in 1..Len(scan.ingredient_lines)}

\* C27: once three instructions are captured the scan goes on: it ends only at
\* the last line or at the fifth ingredient, no later numbered line is
\* captured, and every bullet line of an ingredients section scanned after the
\* third instruction is captured.
C27_InstructionCapKeepsScanning ==
    (scan.pc \in {"scan", "done"} /\ Len(scan.instructions_preview) = 3)
        => /\ scan.pc = "done"
                 => (scan.line_num = Len(scan.lines) \/ Len(scan.ingredients) = 5)
           /\ Len(scan.instruction_lines) = 3
           /\ \A n \in (scan.instruction_lines[3] + 1)..scan.line_num :
                 IsSectionBullet(n) => n \in IngredientLineSet

\* three instructions were captured, a later numbered line of an instructions
\* section was skipped, and a bullet line after that one was captured
C27_Witness ==
    /\ scan.pc = "done"
    /\ Len(scan.instruction_lines) = 3
    /\ \E n \in (scan.instruction_lines[3] + 1)..scan.line_num :
          /\ NumberedShape(LineAt(n), TRUE)
          /\ InInstructions(n)
          /\ \E m \in IngredientLineSet : m > n

(***************************************************************************)
(* The tool against the agent (SpecPair).                                  *)
(***************************************************************************)
\* C28: run side by side over the same markdown text, the tool's extraction
\* and the agent's hold the same position, section flags, title, ingredients
\* and instruction previews after every step, and end together.
C28_ToolExtractsAsAgent ==
    tool.pc # "idle"
        => /\ tool.lines = scan.lines
           /\ tool.pc = scan.pc
           /\ tool.line_num = scan.line_num
           /\ tool.ingredients_section = scan.ingredients_section
           /\ tool.instructions_section = scan.instructions_section
           /\ tool.title = scan.title
           /\ tool.ingredients = scan.ingredients
           /\ tool.instructions_preview = scan.instructions_preview

\* both ended at the fifth ingredient, before the last line, with a title, a
\* cut ingredient and an instruction preview
C28_Witness ==
    /\ tool.pc = "done"
    /\ scan.pc = "done"
    /\ tool.line_num < Len(tool.lines)
    /\ Len(tool.ingredients) = 5
    /\ \E i \in 1..5 : Len(tool.ingredients[i]) = 83
    /\ Len(tool.instructions_preview) > 0
    /\ tool.title # Tool_DefaultTitle

(***************************************************************************)
(* Quiescence of the pipeline (SpecLive).                                  *)
(***************************************************************************)
\* the stages that published, one after the other, on the way from an injected
\* event to event ev: the letters that follow the slashes of its id
Publishers(ev) == {i \in 2..Len(ev.id) : ev.id[i - 1] = "/"}

\* no stage published twice on the way to ev
NoStageTwice(ev) ==
    \A i \in Publishers(ev), j \in Publishers(ev) : ev.id[i] = ev.id[j] => i = j

\* C29: with every published event delivered to all three stages, a single
\* injected event is followed by finitely many events, none of them published
\* by a stage that already published on the way to it, and the system reaches
\* a state with no handler invocation pending, and stays there.
C29_Quiescence ==
    /\ [](\A t \in AllTasks : NoStageTwice(t.ev) /\ Cardinality(Publishers(t.ev)) <= 2)
    /\ <>[](tasks = {})

\* the chain audio -> transcript -> chat intake ran to its end: the chat
\* intake published for the recorder's event, and nothing is pending
C29_Witness ==
    /\ tasks = {}
    /\ last.stage = LlmId
    /\ last.ev.source_id = RecorderId
    /\ last.outcome = "published"
    /\ Cardinality(Publishers(last.ev)) = 1

(***************************************************************************)
(* The recorder's temporary file (Spec).                                   *)
(***************************************************************************)
\* C30: whenever the recorder has finished handling a recipe.audio.new event,
\* however it ended, the temporary file temp_<recipe_id>_audio.m4a does not
\* exist.
C30_TempFileRemoved ==
    (last.stage = RecorderId /\ last.pc = "done")
        => TempFilename(last.recipe_id) \notin files

(***************************************************************************)
(* The text blocks and the code region of the drawn card (SpecExtract).    *)
(***************************************************************************)
\* the text operations of the title, ingredient and instruction blocks: all
\* but the last operation, the caption, and the paste before it
BlockOps == {i \in 1..(Len(scan.card.ops) - 2) : scan.card.ops[i].op = "text"}

\* the caption of the code: the last operation
CaptionOp == scan.card.ops[Len(scan.card.ops)]

\* the point (x, y) is inside the canvas
OnCanvas(x, y) ==
    /\ 0 <= x /\ x < scan.card.width
    /\ 0 <= y /\ y < scan.card.height

\* C31: on a drawn card (at most 5 ingredients and 3 instructions) every text
\* line of the title, ingredient and instruction blocks starts strictly above
\* the caption of the code, the caption starts above the code image, every
\* origin is inside the 600x800 canvas and so is the whole code image.
C31_TextAboveCode ==
    scan.pc = "drawn"
        => /\ scan.card.width = 600 /\ scan.card.height = 800
           /\ Len(scan.ingredients) <= 5 /\ Len(scan.instructions_preview) <= 3
           /\ Cardinality(BlockOps) = 3 + Len(scan.ingredients) + Len(scan.instructions_preview)
           /\ CaptionOp.op = "text"
           /\ \A i \in BlockOps : scan.card.ops[i].y < CaptionOp.y
           /\ \A i \in Pastes :
                 /\ CaptionOp.y < scan.card.ops[i].y
                 /\ OnCanvas(scan.card.ops[i].x + scan.card.ops[i].side - 1,
                             scan.card.ops[i].y + scan.card.ops[i].side - 1)
           /\ \A i \in 1..Len(scan.card.ops) :
                 OnCanvas(scan.card.ops[i].x, scan.card.ops[i].y)

\* the fullest card: five ingredients and three instructions drawn, the lowest
\* block line 220 above the caption
C31_Witness ==
    /\ scan.pc = "drawn"
    /\ Cardinality(BlockOps) = 11
    /\ \E i \in BlockOps :
          /\ scan.card.ops[i].y + 220 = CaptionOp.y
          /\ \A j \in BlockOps : scan.card.ops[j].y <= scan.card.ops[i].y

====
